---- MODULE Spec2Model ----
(***************************************************************************)
(* Training driver of UnsuperPoint (train_utils.py): the step-decay        *)
(* learning-rate schedule built by build_scheduler, the batch loop of      *)
(* train_one_epoch and the epoch loop of train_model with its checkpoint   *)
(* rotation.                                                               *)
(*                                                                         *)
(* Rates and fractions are exact rationals <<num, den>> in lowest terms.   *)
(* The values drawn are dyadic (k / 2^j), so that the float products and   *)
(* comparisons of the Python code are exact and agree with the rationals.  *)
(***************************************************************************)
EXTENDS Integers, Sequences, FiniteSets

----------------------------------------------------------------------------
(* Bounds of the model. *)

\* largest total_epochs of a train_model run
MaxEpochs == 3
\* largest len(train_loader) of a train_model run
MaxLoader == 2
\* largest max_ckpt_save_num
MaxKeep == 2
\* largest total_epochs given to build_scheduler in the schedule harness
MaxSchedEpochs == 4
\* longest decay_step_list
MaxDecaySteps == 2
\* largest total_it_each_epoch of a direct train_one_epoch call
MaxIt == 20
\* largest len(train_loader) of a direct train_one_epoch call
MaxEpochLoader == 7

----------------------------------------------------------------------------
(* Exact rational arithmetic for the float values of the configuration. *)

RECURSIVE GCD(_, _)
GCD(a, b) == IF b = 0 THEN a ELSE GCD(b, a % b)

Rat(n, d) == LET g == GCD(n, d) IN <<n \div g, d \div g>>

RatMul(x, y) == Rat(x[1] * y[1], x[2] * y[2])

RatDiv(x, y) == Rat(x[1] * y[2], x[2] * y[1])

RatLeq(x, y) == x[1] * y[2] <= y[1] * x[2]

RatMax(x, y) == IF RatLeq(x, y) THEN y ELSE x

One == <<1, 1>>

----------------------------------------------------------------------------
(* build_scheduler: the step-decay multiplier and the LambdaLR schedule. *)

\* decay_epochs = [x * total_epochs for x in optim_cfg['decay_step_list']]
decay_epochs(cfg, tot) ==
    [i \in 1..Len(cfg.decay_step_list) |-> RatMul(cfg.decay_step_list[i], <<tot, 1>>)]

\* the for loop of lr_lbmd from its i-th boundary on, cur_decay so far
RECURSIVE DecayLoop(_, _, _, _, _)
DecayLoop(cfg, epochs, i, cur_epoch, cur_decay) ==
    IF i > Len(epochs) THEN cur_decay
    ELSE DecayLoop(cfg, epochs, i + 1, cur_epoch,
                   IF RatLeq(epochs[i], <<cur_epoch, 1>>)
                   THEN RatMul(cur_decay, cfg.LR_decay)
                   ELSE cur_decay)

\* lr_lbmd with a fault: the clip is taken as a ceiling (min for max)
lr_lbmd_min(cfg, tot, cur_epoch) ==
    LET cur_decay == DecayLoop(cfg, decay_epochs(cfg, tot), 1, cur_epoch, One)
        clip == RatDiv(cfg.LR_clip, cfg.LR)
    IN  IF RatLeq(cur_decay, clip) THEN cur_decay ELSE clip

lr_lbmd(cfg, tot, cur_epoch) ==
    RatMax(DecayLoop(cfg, decay_epochs(cfg, tot), 1, cur_epoch, One),
           RatDiv(cfg.LR_clip, cfg.LR))

\* LambdaLR.step(): last_epoch += 1; lr = base_lr * lr_lambda(last_epoch)
LambdaLR_step(sch, cfg, tot) ==
    [sch EXCEPT !.last_epoch = sch.last_epoch + 1,
                !.lr = RatMul(sch.base_lr, lr_lbmd(cfg, tot, sch.last_epoch + 1))]

\* LambdaLR_init with a fault: a resumed schedule takes no initial step, it
\* applies the multiplier of last_epoch itself
LambdaLR_init_nostep(opt, cfg, tot, last_epoch) ==
    IF last_epoch # -1 /\ ~opt.has_initial_lr
    THEN [error |-> "KeyError", last_epoch |-> last_epoch, base_lr |-> opt.lr, lr |-> opt.lr]
    ELSE LET base == IF opt.has_initial_lr THEN opt.initial_lr ELSE opt.lr
             at == IF last_epoch = -1 THEN 0 ELSE last_epoch
         IN  [error |-> "none", last_epoch |-> at, base_lr |-> base,
              lr |-> RatMul(base, lr_lbmd(cfg, tot, at))]

\* lr_sched.LambdaLR(optimizer, lr_lbmd, last_epoch=last_epoch): a resumed
\* schedule (last_epoch # -1) needs initial_lr in the parameter group; base_lrs
\* are the groups' initial_lr; the constructor ends with one step()
LambdaLR_init(opt, cfg, tot, last_epoch) ==
    IF last_epoch # -1 /\ ~opt.has_initial_lr
    THEN [error |-> "KeyError", last_epoch |-> last_epoch, base_lr |-> opt.lr, lr |-> opt.lr]
    ELSE LET base == IF opt.has_initial_lr THEN opt.initial_lr ELSE opt.lr
         IN  LambdaLR_step([error |-> "none", last_epoch |-> last_epoch,
                            base_lr |-> base, lr |-> opt.lr], cfg, tot)

\* build_scheduler: OneCycle and CosineWarmupLR are names the module never
\* binds, and len() is taken of the integer total_iters_each_epoch, so only
\* the plain step-decay branch returns; lr_warmup_scheduler is then None
build_scheduler(opt, tot, last_epoch, cfg) ==
    IF cfg.name = "adam_onecycle"
    THEN [error |-> "NameError", last_epoch |-> last_epoch, base_lr |-> opt.lr, lr |-> opt.lr]
    ELSE LET sch == LambdaLR_init(opt, cfg, tot, last_epoch)
         IN  IF sch.error = "none" /\ cfg.LR_warmup
             THEN [sch EXCEPT !.error = "TypeError"]
             ELSE sch

----------------------------------------------------------------------------
(* State. *)

VARIABLES
    \* arguments and configuration, fixed during a run
    optim_cfg,            \* optim_cfg: name, decay_step_list, LR_decay, LR_clip, LR, LR_warmup, WARMUP_EPOCH
    total_epochs,
    last_epoch,           \* the last_epoch argument of build_scheduler
    rank,
    tb_log,               \* "None" or "writer"
    start_epoch,
    start_iter,
    train_loader,         \* len(train_loader)
    ckpt_save_interval,
    max_ckpt_save_num,
    \* optimizer and schedules
    optimizer,            \* param_groups[0]: lr, initial_lr (when set), who set lr last
    lr_scheduler,         \* the primary LambdaLR schedule
    lr_warmup_scheduler,  \* [present, steps]
    ref_optimizer,        \* the optimizer of the from-scratch schedule
    ref_scheduler,        \* the schedule built with last_epoch = -1
    ref_steps,            \* step() calls made on ref_scheduler
    \* control
    pc,
    caller,               \* "train_model" or "direct": who called train_one_epoch
    error,                \* the exception that ended the run, or "none"
    \* train_model locals
    tbar,                 \* next epoch index the trange yields
    cur_epoch,
    cur_scheduler,        \* "primary" or "warmup"
    total_it_each_epoch,
    accumulated_iter,
    \* train_one_epoch locals
    it_local,             \* accumulated_iter of train_one_epoch
    cur_it,
    dataloader_iter,      \* batches the current iterator has yielded
    \* the world and the history of calls
    fetched,              \* batches obtained by next() in this epoch
    restarts,             \* iter(train_loader) calls made on StopIteration in this epoch
    opt_steps,            \* optimizer.step() calls since the run began
    tb_scalars,           \* add_scalar calls received by the sink
    tb_images,            \* add_image calls received by the sink
    ckpt_dir,             \* files checkpoint_epoch_<name>.pth: [name, mtime, epoch, it]
    clock,                \* modification time of the next file written
    ckpt_io,              \* [glob, remove, save]: calls on the checkpoint directory
    saves,                \* torch.save calls in order: [name, epoch, it, sched_steps]
    epoch_log             \* one entry per schedule step: [epoch, sched, batches]

args == <<optim_cfg, total_epochs, last_epoch, rank, tb_log, start_epoch, start_iter,
          train_loader, ckpt_save_interval, max_ckpt_save_num>>

scheds == <<optimizer, lr_scheduler, lr_warmup_scheduler>>

refs == <<ref_optimizer, ref_scheduler, ref_steps>>

model_locals == <<tbar, cur_epoch, cur_scheduler, total_it_each_epoch, accumulated_iter>>

epoch_locals == <<it_local, cur_it, dataloader_iter, fetched, restarts>>

sink == <<tb_scalars, tb_images>>

disk == <<ckpt_dir, clock, ckpt_io, saves>>

vars == <<args, scheds, refs, pc, caller, error, model_locals, epoch_locals,
          opt_steps, sink, disk, epoch_log>>

----------------------------------------------------------------------------
(* Inputs. *)

\* decay_step_list fractions, LR_decay, LR_clip and LR: dyadic values
Fractions == {<<1, 4>>, <<1, 2>>, <<3, 4>>}

DecayLists == UNION {[1..n -> Fractions] : n \in 0..MaxDecaySteps}

StepCfgs ==
    [name : {"sgd"}, decay_step_list : DecayLists,
     LR_decay : {<<1, 4>>, <<1, 2>>, <<1, 1>>},
     LR_clip : {<<0, 1>>, <<1, 8>>, <<1, 2>>},
     LR : {<<1, 2>>, <<1, 1>>},
     LR_warmup : {FALSE}, WARMUP_EPOCH : {0}]

\* configurations on which build_scheduler raises
BrokenCfgs ==
    [name : {"sgd", "adam_onecycle"}, decay_step_list : {<<>>},
     LR_decay : {<<1, 2>>}, LR_clip : {<<0, 1>>}, LR : {<<1, 1>>},
     LR_warmup : {TRUE}, WARMUP_EPOCH : {1}]

\* optim.SGD(..., lr=LR): the parameter group of a new optimizer, and of one
\* whose state was saved under a schedule (it carries initial_lr)
NewOptimizer(cfg, resumed) ==
    [lr |-> cfg.LR, has_initial_lr |-> resumed, initial_lr |-> cfg.LR, lr_by |-> "optimizer"]

NoScheduler(cfg) ==
    [error |-> "unbuilt", last_epoch |-> -1, base_lr |-> cfg.LR, lr |-> cfg.LR]

NoWarmup == [present |-> FALSE, steps |-> 0]

\* the optimizer after a schedule was built on it or stepped
SetLR(opt, sch) ==
    [opt EXCEPT !.lr = sch.lr, !.has_initial_lr = TRUE, !.initial_lr = sch.base_lr,
                !.lr_by = "primary"]

\* the state of everything train_model and train_one_epoch own, before a call
IdleTraining ==
    /\ rank = 0 /\ tb_log = "None" /\ start_epoch = 0 /\ start_iter = 0
    /\ train_loader = 0 /\ total_it_each_epoch = 0
    /\ ckpt_save_interval = 1 /\ max_ckpt_save_num = 1
    /\ lr_warmup_scheduler = NoWarmup
    /\ caller = "direct" /\ tbar = 0 /\ cur_epoch = 0 /\ cur_scheduler = "primary"
    /\ accumulated_iter = 0 /\ it_local = 0 /\ cur_it = 0 /\ dataloader_iter = 0
    /\ fetched = 0 /\ restarts = 0 /\ opt_steps = 0
    /\ tb_scalars = 0 /\ tb_images = 0
    /\ ckpt_dir = {} /\ clock = 1 /\ ckpt_io = [glob |-> 0, remove |-> 0, save |-> 0]
    /\ saves = <<>> /\ epoch_log = <<>>

IdleRef ==
    /\ ref_optimizer = NewOptimizer(optim_cfg, FALSE)
    /\ ref_scheduler = NoScheduler(optim_cfg)
    /\ ref_steps = 0

----------------------------------------------------------------------------
(* The schedule harness: a schedule resumed at last_epoch next to one built   *)
(* from scratch and stepped, as the module's __main__ steps it.               *)

InitSched ==
    /\ optim_cfg \in StepCfgs \cup BrokenCfgs
    /\ total_epochs \in 1..MaxSchedEpochs
    /\ last_epoch \in 0..(total_epochs - 1)
    /\ \E resumed \in BOOLEAN : optimizer = NewOptimizer(optim_cfg, resumed)
    /\ lr_scheduler = NoScheduler(optim_cfg)
    /\ IdleRef
    /\ IdleTraining
    /\ pc = "build" /\ error = "none"

\* build_scheduler(opt, ..., last_epoch=K, cfg)
BuildResumed ==
    /\ pc = "build"
    /\ LET sch == build_scheduler(optimizer, total_epochs, last_epoch, optim_cfg)
       IN  /\ lr_scheduler' = sch
           /\ optimizer' = IF sch.error \in {"none", "TypeError"}
                           THEN SetLR(optimizer, sch) ELSE optimizer
           /\ error' = sch.error
           /\ pc' = IF sch.error = "none" THEN "build_ref" ELSE "error"
    /\ UNCHANGED <<args, lr_warmup_scheduler, refs, caller, model_locals, epoch_locals,
                   opt_steps, sink, disk, epoch_log>>

\* sch, _ = build_scheduler(opt, 10, 80, -1, cfg)
BuildScratch ==
    /\ pc = "build_ref"
    /\ LET sch == build_scheduler(ref_optimizer, total_epochs, -1, optim_cfg)
       IN  /\ ref_scheduler' = sch
           /\ ref_optimizer' = SetLR(ref_optimizer, sch)
    /\ pc' = "step_ref"
    /\ UNCHANGED <<args, scheds, ref_steps, caller, error, model_locals, epoch_locals,
                   opt_steps, sink, disk, epoch_log>>

\* for i in range(total_epochs): sch.step()
StepScratch ==
    /\ pc = "step_ref"
    /\ ref_steps < total_epochs
    /\ LET sch == LambdaLR_step(ref_scheduler, optim_cfg, total_epochs)
       IN  /\ ref_scheduler' = sch
           /\ ref_optimizer' = SetLR(ref_optimizer, sch)
    /\ ref_steps' = ref_steps + 1
    /\ UNCHANGED <<args, scheds, pc, caller, error, model_locals, epoch_locals,
                   opt_steps, sink, disk, epoch_log>>

NextSched == BuildResumed \/ BuildScratch \/ StepScratch

SpecSched == InitSched /\ [][NextSched]_vars

----------------------------------------------------------------------------
(* train_one_epoch. *)

\* lines 56-62: a fresh iterator when the epoch is one pass of the loader
EpochEnter ==
    /\ pc = "enter"
    /\ dataloader_iter' = IF total_it_each_epoch = train_loader THEN 0 ELSE dataloader_iter
    /\ cur_it' = 0 /\ fetched' = 0 /\ restarts' = 0
    /\ pc' = IF total_it_each_epoch > 0 THEN "fetch" ELSE "sched_step"
    /\ UNCHANGED <<args, scheds, refs, caller, error, model_locals, it_local,
                   opt_steps, sink, disk, epoch_log>>

\* lines 64-69: next(dataloader_iter); on StopIteration a new iterator and next()
\* again, whose own StopIteration (an empty loader) is not caught
Fetch ==
    /\ pc = "fetch"
    /\ IF dataloader_iter < train_loader
       THEN /\ dataloader_iter' = dataloader_iter + 1
            /\ fetched' = fetched + 1
            /\ UNCHANGED <<restarts, error>>
            /\ pc' = "images"
       ELSE /\ restarts' = restarts + 1
            /\ IF train_loader = 0
               THEN /\ dataloader_iter' = 0
                    /\ error' = "StopIteration"
                    /\ pc' = "error"
                    /\ UNCHANGED fetched
               ELSE /\ dataloader_iter' = 1
                    /\ fetched' = fetched + 1
                    /\ pc' = "images"
                    /\ UNCHANGED error
    /\ UNCHANGED <<args, scheds, refs, caller, model_locals, it_local, cur_it,
                   opt_steps, sink, disk, epoch_log>>

\* lines 71-76: the two image grids of the first batch, written by rank 0
LogImages ==
    /\ pc = "images"
    /\ IF rank = 0 /\ cur_it = 0
       THEN IF tb_log = "None"
            THEN /\ error' = "AttributeError"
                 /\ pc' = "error"
                 /\ UNCHANGED tb_images
            ELSE /\ tb_images' = tb_images + 2
                 /\ pc' = "read_lr"
                 /\ UNCHANGED error
       ELSE /\ pc' = "read_lr"
            /\ UNCHANGED <<tb_images, error>>
    /\ UNCHANGED <<args, scheds, refs, caller, model_locals, epoch_locals,
                   opt_steps, tb_scalars, disk, epoch_log>>

\* lines 78-88: the rate is read and written to the sink when there is one
ReadLR ==
    /\ pc = "read_lr"
    /\ tb_scalars' = IF tb_log # "None" THEN tb_scalars + 1 ELSE tb_scalars
    /\ pc' = "opt_step"
    /\ UNCHANGED <<args, scheds, refs, caller, error, model_locals, epoch_locals,
                   opt_steps, tb_images, disk, epoch_log>>

\* OptStep with a fault: the counter is advanced on rank 0 only
OptStepRank0 ==
    /\ pc = "opt_step"
    /\ opt_steps' = opt_steps + 1
    /\ it_local' = IF rank = 0 THEN it_local + 1 ELSE it_local
    /\ pc' = "report"
    /\ UNCHANGED <<args, scheds, refs, caller, error, model_locals, cur_it,
                   dataloader_iter, fetched, restarts, sink, disk, epoch_log>>

\* lines 91-101: forward, backward, clipping, optimizer.step(), accumulated_iter += 1
OptStep ==
    /\ pc = "opt_step"
    /\ opt_steps' = opt_steps + 1
    /\ it_local' = it_local + 1
    /\ pc' = "report"
    /\ UNCHANGED <<args, scheds, refs, caller, error, model_locals, cur_it,
                   dataloader_iter, fetched, restarts, sink, disk, epoch_log>>

\* lines 103-117 and the loop's next index: seven scalars, rank 0 with a sink
Report ==
    /\ pc = "report"
    /\ tb_scalars' = IF rank = 0 /\ tb_log # "None" THEN tb_scalars + 7 ELSE tb_scalars
    /\ cur_it' = cur_it + 1
    /\ pc' = IF cur_it + 1 < total_it_each_epoch THEN "fetch" ELSE "sched_step"
    /\ UNCHANGED <<args, scheds, refs, caller, error, model_locals, it_local,
                   dataloader_iter, fetched, restarts, opt_steps, tb_images, disk, epoch_log>>

\* line 118: lr_scheduler.step() on the schedule the caller passed
SchedStep ==
    /\ pc = "sched_step"
    /\ IF cur_scheduler = "primary"
       THEN LET sch == LambdaLR_step(lr_scheduler, optim_cfg, total_epochs)
            IN  /\ lr_scheduler' = sch
                /\ optimizer' = SetLR(optimizer, sch)
                /\ UNCHANGED lr_warmup_scheduler
       ELSE /\ lr_warmup_scheduler' =
                   [lr_warmup_scheduler EXCEPT !.steps = lr_warmup_scheduler.steps + 1]
            /\ optimizer' = [optimizer EXCEPT !.lr_by = "warmup"]
            /\ UNCHANGED lr_scheduler
    /\ epoch_log' = Append(epoch_log,
                           [epoch |-> cur_epoch, sched |-> cur_scheduler, batches |-> cur_it])
    /\ pc' = "return"
    /\ UNCHANGED <<args, refs, caller, error, model_locals, epoch_locals,
                   opt_steps, sink, disk>>

\* lines 119-121, and the assignment of the result at line 140
Return ==
    /\ pc = "return"
    /\ accumulated_iter' = it_local
    /\ pc' = IF caller = "train_model" THEN "ckpt" ELSE "done"
    /\ UNCHANGED <<args, scheds, refs, caller, error, tbar, cur_epoch, cur_scheduler,
                   total_it_each_epoch, epoch_locals, opt_steps, sink, disk, epoch_log>>

\* the configuration of the training runs
TrainCfgs ==
    [name : {"sgd"}, decay_step_list : {<<(<<1, 2>>)>>, <<(<<1, 4>>), (<<3, 4>>)>>},
     LR_decay : {<<1, 2>>}, LR_clip : {<<1, 8>>}, LR : {<<1, 1>>},
     LR_warmup : {FALSE}, WARMUP_EPOCH : {0, 1, 2}]

NoDisk ==
    /\ ckpt_dir = {} /\ clock = 1 /\ ckpt_io = [glob |-> 0, remove |-> 0, save |-> 0]
    /\ saves = <<>>

\* a direct call of train_one_epoch: any batch count, loader length and
\* position of the iterator passed in
InitEpoch ==
    /\ optim_cfg \in {c \in TrainCfgs : Len(c.decay_step_list) = 1 /\ c.WARMUP_EPOCH = 0}
    /\ total_epochs = 1 /\ last_epoch = -1
    /\ rank \in {0, 1} /\ tb_log \in {"None", "writer"}
    /\ start_epoch = 0 /\ start_iter \in {0, 3}
    /\ train_loader \in 0..MaxEpochLoader
    /\ total_it_each_epoch \in 0..MaxIt
    /\ dataloader_iter \in 0..train_loader
    /\ ckpt_save_interval = 1 /\ max_ckpt_save_num = 1
    /\ LET sch == build_scheduler(NewOptimizer(optim_cfg, FALSE), total_epochs, -1, optim_cfg)
       IN  /\ lr_scheduler = sch
           /\ optimizer = SetLR(NewOptimizer(optim_cfg, FALSE), sch)
    /\ lr_warmup_scheduler = NoWarmup
    /\ IdleRef
    /\ pc = "enter" /\ caller = "direct" /\ error = "none"
    /\ tbar = 0 /\ cur_epoch = 0 /\ cur_scheduler = "primary"
    /\ accumulated_iter = start_iter /\ it_local = start_iter
    /\ cur_it = 0 /\ fetched = 0 /\ restarts = 0 /\ opt_steps = 0
    /\ tb_scalars = 0 /\ tb_images = 0
    /\ NoDisk
    /\ epoch_log = <<>>

NextEpoch == EpochEnter \/ Fetch \/ LogImages \/ ReadLR \/ OptStep \/ Report
                \/ SchedStep \/ Return

SpecEpoch == InitEpoch /\ [][NextEpoch]_vars

----------------------------------------------------------------------------
(* train_model and the checkpoint directory. *)

CkptName(n) == <<"checkpoint_epoch_", n, ".pth">>

\* glob.glob(ckpt_save_dir / 'checkpoint_epoch_*.pth')
Glob(dir) == {f \in dir : f.name[1] = "checkpoint_epoch_" /\ f.name[3] = ".pth"}

\* ckpt_list.sort(key=os.path.getmtime)
RECURSIVE SortByMtime(_)
SortByMtime(files) ==
    IF files = {} THEN <<>>
    ELSE LET first == CHOOSE f \in files : \A g \in files : f.mtime <= g.mtime
         IN  <<first>> \o SortByMtime(files \ {first})

\* what an earlier run that trained the epochs before start_epoch left behind
EarlierRun(start) ==
    {[name |-> CkptName(n), mtime |-> n, epoch |-> n, it |-> n] : n \in 1..start}
        \cup {[name |-> <<"latest_model", 0, ".pth">>, mtime |-> 0, epoch |-> start, it |-> start]}

InitTrain ==
    /\ optim_cfg \in TrainCfgs
    /\ total_epochs \in 0..MaxEpochs
    /\ start_epoch \in {0, 1}
    /\ last_epoch = start_epoch - 1
    /\ rank \in {0, 1} /\ tb_log \in {"None", "writer"}
    /\ start_iter \in {0, 3}
    /\ train_loader \in 0..MaxLoader
    /\ ckpt_save_interval \in {1, 2}
    /\ max_ckpt_save_num \in 1..MaxKeep
    /\ LET opt == NewOptimizer(optim_cfg, start_epoch > 0)
           sch == build_scheduler(opt, total_epochs, last_epoch, optim_cfg)
       IN  /\ lr_scheduler = sch
           /\ optimizer = SetLR(opt, sch)
    /\ \E present \in BOOLEAN :
          /\ lr_warmup_scheduler = [present |-> present, steps |-> 0]
          /\ ~present => optim_cfg.WARMUP_EPOCH = 1
    /\ IdleRef
    /\ pc = "train_model" /\ caller = "train_model" /\ error = "none"
    /\ tbar = 0 /\ cur_epoch = 0 /\ cur_scheduler = "primary"
    /\ total_it_each_epoch = 0
    /\ accumulated_iter = 0 /\ it_local = 0
    /\ cur_it = 0 /\ dataloader_iter = 0 /\ fetched = 0 /\ restarts = 0 /\ opt_steps = 0
    /\ tb_scalars = 0 /\ tb_images = 0
    /\ ckpt_dir \in {{}, EarlierRun(start_epoch)}
    /\ clock = start_epoch + 1
    /\ ckpt_io = [glob |-> 0, remove |-> 0, save |-> 0]
    /\ saves = <<>>
    /\ epoch_log = <<>>

\* lines 127-130
TrainBegin ==
    /\ pc = "train_model"
    /\ accumulated_iter' = start_iter
    /\ tbar' = start_epoch
    /\ total_it_each_epoch' = train_loader
    /\ dataloader_iter' = 0
    /\ pc' = "for_epoch"
    /\ UNCHANGED <<args, scheds, refs, caller, error, cur_epoch, cur_scheduler,
                   it_local, cur_it, fetched, restarts, opt_steps, sink, disk, epoch_log>>

\* EpochBegin with a fault: the warmup schedule is chosen through epoch WARMUP_EPOCH
EpochBeginLate ==
    /\ pc = "for_epoch"
    /\ tbar < total_epochs
    /\ cur_epoch' = tbar
    /\ tbar' = tbar + 1
    /\ cur_scheduler' = IF lr_warmup_scheduler.present /\ tbar <= optim_cfg.WARMUP_EPOCH
                        THEN "warmup" ELSE "primary"
    /\ it_local' = accumulated_iter
    /\ pc' = "enter"
    /\ UNCHANGED <<args, scheds, refs, caller, error, total_it_each_epoch, accumulated_iter,
                   cur_it, dataloader_iter, fetched, restarts, opt_steps, sink, disk, epoch_log>>

\* lines 131-148: the next epoch, its schedule, and the call of train_one_epoch
EpochBegin ==
    /\ pc = "for_epoch"
    /\ tbar < total_epochs
    /\ cur_epoch' = tbar
    /\ tbar' = tbar + 1
    /\ cur_scheduler' = IF lr_warmup_scheduler.present /\ tbar < optim_cfg.WARMUP_EPOCH
                        THEN "warmup" ELSE "primary"
    /\ it_local' = accumulated_iter
    /\ pc' = "enter"
    /\ UNCHANGED <<args, scheds, refs, caller, error, total_it_each_epoch, accumulated_iter,
                   cur_it, dataloader_iter, fetched, restarts, opt_steps, sink, disk, epoch_log>>

\* line 131: the trange is exhausted
TrainEnd ==
    /\ pc = "for_epoch"
    /\ tbar >= total_epochs
    /\ pc' = "done"
    /\ UNCHANGED <<args, scheds, refs, caller, error, model_locals, epoch_locals,
                   opt_steps, sink, disk, epoch_log>>

\* CkptCheck with a fault: every rank saves
CkptCheckAnyRank ==
    /\ pc = "ckpt"
    /\ pc' = IF (cur_epoch + 1) % ckpt_save_interval = 0 THEN "rotate" ELSE "for_epoch"
    /\ UNCHANGED <<args, scheds, refs, caller, error, model_locals, epoch_locals,
                   opt_steps, sink, disk, epoch_log>>

\* lines 151-152
CkptCheck ==
    /\ pc = "ckpt"
    /\ pc' = IF (cur_epoch + 1) % ckpt_save_interval = 0 /\ rank = 0
             THEN "rotate" ELSE "for_epoch"
    /\ UNCHANGED <<args, scheds, refs, caller, error, model_locals, epoch_locals,
                   opt_steps, sink, disk, epoch_log>>

\* the files os.remove is called on: the first len - max_ckpt_save_num + 1 of the list
Removed(ckpt_list, keep) ==
    IF Len(ckpt_list) >= keep
    THEN {ckpt_list[i] : i \in 1..(Len(ckpt_list) - keep + 1)}
    ELSE {}

\* Rotate with a fault: one file fewer is removed
RotateKeepOneMore ==
    /\ pc = "rotate"
    /\ LET ckpt_list == SortByMtime(Glob(ckpt_dir))
           gone == IF Len(ckpt_list) >= max_ckpt_save_num
                   THEN {ckpt_list[i] : i \in 1..(Len(ckpt_list) - max_ckpt_save_num)}
                   ELSE {}
       IN  /\ ckpt_dir' = ckpt_dir \ gone
           /\ ckpt_io' = [ckpt_io EXCEPT !.glob = ckpt_io.glob + 1,
                                         !.remove = ckpt_io.remove + Cardinality(gone)]
    /\ pc' = "save"
    /\ UNCHANGED <<args, scheds, refs, caller, error, model_locals, epoch_locals,
                   opt_steps, sink, clock, saves, epoch_log>>

\* lines 154-159
Rotate ==
    /\ pc = "rotate"
    /\ LET ckpt_list == SortByMtime(Glob(ckpt_dir))
           gone == Removed(ckpt_list, max_ckpt_save_num)
       IN  /\ ckpt_dir' = ckpt_dir \ gone
           /\ ckpt_io' = [ckpt_io EXCEPT !.glob = ckpt_io.glob + 1,
                                         !.remove = ckpt_io.remove + Cardinality(gone)]
    /\ pc' = "save"
    /\ UNCHANGED <<args, scheds, refs, caller, error, model_locals, epoch_locals,
                   opt_steps, sink, clock, saves, epoch_log>>

\* lines 161-164 with checkpoint_state and save_checkpoint (172-193): the file
\* checkpoint_epoch_<trained_epoch>.pth is written, replacing one of that name
SaveCheckpoint ==
    /\ pc = "save"
    /\ LET trained_epoch == cur_epoch + 1
           file == [name |-> CkptName(trained_epoch), mtime |-> clock,
                    epoch |-> trained_epoch, it |-> accumulated_iter]
       IN  /\ ckpt_dir' = {f \in ckpt_dir : f.name # file.name} \cup {file}
           /\ saves' = Append(saves, [name |-> file.name, epoch |-> file.epoch,
                                      it |-> file.it, sched_steps |-> Len(epoch_log)])
    /\ clock' = clock + 1
    /\ ckpt_io' = [ckpt_io EXCEPT !.save = ckpt_io.save + 1]
    /\ pc' = "for_epoch"
    /\ UNCHANGED <<args, scheds, refs, caller, error, model_locals, epoch_locals,
                   opt_steps, sink, epoch_log>>

Init == InitTrain

Next == TrainBegin \/ EpochBegin \/ TrainEnd
           \/ EpochEnter \/ Fetch \/ LogImages \/ ReadLR \/ OptStep \/ Report
           \/ SchedStep \/ Return
           \/ CkptCheck \/ Rotate \/ SaveCheckpoint

Spec == Init /\ [][Next]_vars

----------------------------------------------------------------------------
(* Properties of the step-decay schedule (SpecSched). *)

RECURSIVE RatPow(_, _)
RatPow(x, k) == IF k = 0 THEN One ELSE RatMul(x, RatPow(x, k - 1))

\* the decay boundaries fraction * total_epochs that are <= E, by position in the list
BoundariesUpTo(cfg, tot, E) ==
    {i \in 1..Len(cfg.decay_step_list) :
        cfg.decay_step_list[i][1] * tot <= E * cfg.decay_step_list[i][2]}

ClosedForm(cfg, tot, E) ==
    RatMax(RatPow(cfg.LR_decay, Cardinality(BoundariesUpTo(cfg, tot, E))),
           RatDiv(cfg.LR_clip, cfg.LR))

\* C5: for every epoch index E the multiplier lr_lbmd(E) is
\* max(LR_decay^k, LR_clip / LR) with k the number of decay boundaries <= E, it
\* does not increase from E to E + 1 and it is never below LR_clip / LR; the
\* rate a schedule applies is its base rate times that multiplier.
C5_StepDecayMonotoneFloored ==
    /\ \A E \in 0..(MaxSchedEpochs + 1) :
          /\ lr_lbmd(optim_cfg, total_epochs, E) = ClosedForm(optim_cfg, total_epochs, E)
          /\ RatLeq(lr_lbmd(optim_cfg, total_epochs, E + 1), lr_lbmd(optim_cfg, total_epochs, E))
          /\ RatLeq(RatDiv(optim_cfg.LR_clip, optim_cfg.LR), lr_lbmd(optim_cfg, total_epochs, E))
    /\ ref_scheduler.error = "none" =>
          /\ ref_scheduler.lr = RatMul(ref_scheduler.base_lr,
                                       ClosedForm(optim_cfg, total_epochs, ref_scheduler.last_epoch))
          /\ RatLeq(RatMul(ref_scheduler.base_lr, RatDiv(optim_cfg.LR_clip, optim_cfg.LR)),
                    ref_scheduler.lr)
          /\ ref_optimizer.lr = ref_scheduler.lr

\* a schedule stepped past two boundaries, where the clip is what holds the rate up
C5_Witness ==
    /\ pc = "step_ref" /\ ref_steps >= 2
    /\ Cardinality(BoundariesUpTo(optim_cfg, total_epochs, ref_scheduler.last_epoch)) = 2
    /\ optim_cfg.LR_decay = <<1, 4>> /\ optim_cfg.LR_clip = <<1, 8>> /\ optim_cfg.LR = <<1, 1>>
    /\ ref_scheduler.lr = <<1, 8>>

----------------------------------------------------------------------------
(* Properties of train_one_epoch (SpecEpoch). *)

SinkCalls == tb_scalars + tb_images

\* C3: with tb_log absent an epoch over a non-empty loader makes no call on the
\* sink and raises nothing, on any rank.
C3_AbsentSinkIsSkipped ==
    (tb_log = "None" /\ train_loader >= 1) => (SinkCalls = 0 /\ error = "none")

\* C4: an epoch of T >= 1 batches over a non-empty loader ends without an
\* unhandled error, having fetched exactly T batches and made exactly T
\* optimizer steps.
C4_EpochFetchesAllBatches ==
    (total_it_each_epoch >= 1 /\ train_loader >= 1) =>
        /\ error = "none"
        /\ pc = "done" => (fetched = total_it_each_epoch /\ opt_steps = total_it_each_epoch)

----------------------------------------------------------------------------
(* Properties of train_model (Spec). *)

\* the checkpoint files of the directory
Ckpts == Glob(ckpt_dir)

\* C1: on rank 0 with ckpt_save_interval = 1, once a checkpoint was saved the
\* directory never holds more than max_ckpt_save_num checkpoint files, and
\* after more than max_ckpt_save_num saves the files left are those of the last
\* max_ckpt_save_num saves, the newest by modification time of all files
\* written, which are the checkpoints of the last max_ckpt_save_num trained epochs.
C1_Retention ==
    (rank = 0 /\ ckpt_save_interval = 1 /\ saves # <<>>) =>
        /\ Cardinality(Ckpts) <= max_ckpt_save_num
        /\ (Len(saves) > max_ckpt_save_num /\ pc # "save") =>
              LET last == saves[Len(saves)].epoch
              IN  /\ Cardinality(Ckpts) = max_ckpt_save_num
                  /\ {f.name : f \in Ckpts}
                        = {saves[i].name : i \in (Len(saves) - max_ckpt_save_num + 1)..Len(saves)}
                  /\ {f.epoch : f \in Ckpts} = (last - max_ckpt_save_num + 1)..last
                  /\ {f.mtime : f \in Ckpts} = (clock - max_ckpt_save_num)..(clock - 1)

\* a run from an empty directory that wrote more checkpoints than it may keep
C1_Witness ==
    /\ rank = 0 /\ ckpt_save_interval = 1 /\ max_ckpt_save_num = MaxKeep
    /\ pc = "done" /\ Len(saves) > max_ckpt_save_num
    /\ ckpt_dir = Ckpts /\ start_epoch = 0
    /\ Cardinality(Ckpts) = max_ckpt_save_num

\* C2: a rank other than 0 writes no scalar and no image to the sink.
C2_OnlyRank0Reports ==
    rank # 0 => SinkCalls = 0

\* the epochs that train_model has finished, their checkpoint step included
Completed(e) ==
    /\ pc # "train_model"
    /\ e >= start_epoch
    /\ \/ e < tbar - 1
       \/ e = tbar - 1 /\ pc \in {"for_epoch", "done"}

SavedFor(e) == \E i \in 1..Len(saves) : saves[i].epoch = e + 1

\* C7: a finished epoch e has a checkpoint saved exactly when
\* (e + 1) % ckpt_save_interval = 0 on rank 0; each save comes after the
\* schedule step that closes its epoch, which all batches of the epoch
\* precede, goes to checkpoint_epoch_<e+1>.pth and records epoch e + 1; on
\* another rank the directory is never listed, deleted from or written to.
C7_CheckpointTrigger ==
    /\ \A e \in 0..MaxEpochs :
          Completed(e) => (SavedFor(e) <=> ((e + 1) % ckpt_save_interval = 0 /\ rank = 0))
    /\ \A i \in 1..Len(saves) :
          LET e == saves[i].epoch - 1
          IN  /\ e \in start_epoch..(total_epochs - 1)
              /\ saves[i].name = CkptName(e + 1)
              /\ saves[i].sched_steps = e - start_epoch + 1
              /\ epoch_log[saves[i].sched_steps].epoch = e
              /\ epoch_log[saves[i].sched_steps].batches = total_it_each_epoch
              /\ \A j \in 1..(i - 1) : saves[j].epoch < saves[i].epoch
    /\ (saves # <<>> /\ pc # "rotate" /\ pc # "save") =>
          \E f \in Ckpts : /\ f.name = saves[Len(saves)].name
                           /\ f.epoch = saves[Len(saves)].epoch
                           /\ f.mtime = clock - 1
    /\ rank # 0 =>
          /\ ckpt_io = [glob |-> 0, remove |-> 0, save |-> 0]
          /\ ckpt_dir \in {{}, EarlierRun(start_epoch)}
          /\ pc \notin {"rotate", "save"}

\* a finished run on rank 0 that saved after some epochs and not after others
C7_Witness ==
    /\ pc = "done" /\ rank = 0 /\ ckpt_save_interval = 2
    /\ \E e \in start_epoch..(total_epochs - 1) : SavedFor(e)
    /\ \E e \in start_epoch..(total_epochs - 1) : ~SavedFor(e)

\* the schedule line 136 selects for epoch e
Selected(e) ==
    IF lr_warmup_scheduler.present /\ e < optim_cfg.WARMUP_EPOCH THEN "warmup" ELSE "primary"

StepsOf(kind) == Cardinality({i \in 1..Len(epoch_log) : epoch_log[i].sched = kind})

\* C8: the i-th schedule step of a run closes epoch start_epoch + i - 1, after
\* all total_it_each_epoch batches of it, and advances the warmup schedule if
\* there is one and the epoch is below WARMUP_EPOCH, the primary schedule
\* otherwise; each schedule was advanced once per epoch that selected it and
\* never else; no warmup epoch follows a primary epoch; the loop ends after
\* max(0, total_epochs - start_epoch) epochs.
C8_ScheduleSelection ==
    /\ \A i \in 1..Len(epoch_log) :
          /\ epoch_log[i].epoch = start_epoch + i - 1
          /\ epoch_log[i].epoch < total_epochs
          /\ epoch_log[i].batches = total_it_each_epoch
          /\ epoch_log[i].sched = Selected(epoch_log[i].epoch)
          /\ \A j \in 1..(i - 1) :
                epoch_log[j].sched = "primary" => epoch_log[i].sched = "primary"
    /\ lr_scheduler.last_epoch = start_epoch + StepsOf("primary")
    /\ lr_warmup_scheduler.steps = StepsOf("warmup")
    /\ pc \in {"fetch", "images", "read_lr", "opt_step", "report"} =>
          Len(epoch_log) = cur_epoch - start_epoch
    /\ pc = "done" =>
          Len(epoch_log) = IF total_epochs > start_epoch THEN total_epochs - start_epoch ELSE 0

\* a finished run that went from the warmup schedule to the primary one
C8_Witness ==
    /\ pc = "done" /\ train_loader >= 1
    /\ StepsOf("warmup") >= 1 /\ StepsOf("primary") >= 1

\* the counter as the code holds it: the local of train_one_epoch during an
\* epoch, the local of train_model between epochs
InEpoch == pc \in {"enter", "fetch", "images", "read_lr", "opt_step", "report",
                    "sched_step", "return"}

Counter == IF InEpoch \/ (pc = "error" /\ error # "none") THEN it_local ELSE accumulated_iter

\* C9: the counter is start_iter plus the optimizer steps made so far;
\* train_one_epoch returns the counter it was given plus total_it_each_epoch,
\* on every rank; the checkpoint of trained epoch N records
\* it = start_iter + (N - start_epoch) * len(train_loader).
C9_IterationAccounting ==
    /\ pc # "train_model" => Counter = start_iter + opt_steps
    /\ pc = "return" => it_local = accumulated_iter + total_it_each_epoch
    /\ pc = "sched_step" => it_local = accumulated_iter + cur_it
    /\ \A i \in 1..Len(saves) :
          saves[i].it = start_iter + (saves[i].epoch - start_epoch) * train_loader
    /\ \A f \in Ckpts :
          f.mtime > start_epoch => f.it = start_iter + (f.epoch - start_epoch) * train_loader

\* a resumed run that saved two checkpoints with a non-zero starting count
C9_Witness ==
    /\ pc = "done" /\ Len(saves) >= 2 /\ train_loader = MaxLoader /\ start_iter = 3
    /\ start_epoch = 1
    /\ saves[Len(saves)].it = 3 + (total_epochs - 1) * MaxLoader

\* C10: in a run from scratch with a warmup schedule, at the start of an epoch
\* E >= WARMUP_EPOCH the primary schedule has been advanced E times and the
\* multiplier it applies is lr_lbmd(E).
C10_DecayCountsTrainingEpochs ==
    (pc = "enter" /\ start_epoch = 0 /\ lr_warmup_scheduler.present
        /\ cur_epoch >= optim_cfg.WARMUP_EPOCH) =>
        /\ lr_scheduler.last_epoch = cur_epoch
        /\ lr_scheduler.lr = RatMul(lr_scheduler.base_lr,
                                    lr_lbmd(optim_cfg, total_epochs, cur_epoch))

====
